---------------------------- MODULE Spec2Model ----------------------------
(***************************************************************************)
(* Posture classifier (PoseLandmarker/posture_classifier.py).              *)
(*                                                                         *)
(* Number representation.  The program works on floating-point pixels and  *)
(* degrees; the model uses exact fixed-point integers:                     *)
(*   - an angle is an integer count of 1/10000 degree (90 deg = 900000);   *)
(*   - a pixel coordinate is an integer count of quarter pixels, so that   *)
(*     the /2.0 of midpoint and the /4.0 of the chest centroid are exact   *)
(*     for landmarks that sit on whole pixels.                             *)
(* Points are pairs <<x, y>>: p[1] is the source's p[0], p[2] its p[1].    *)
(***************************************************************************)
EXTENDS Integers, Sequences, FiniteSets, TLC

VARIABLES
    pc,             \* position of main(): see PcValues
    detector,       \* "unset" | "loaded" | "None"          (main, line 130)
    cap,            \* "unopened" | "open" | "failed" | "released"
    window,         \* "none" | "shown" | "destroyed"
    log,            \* what init_pose_landmarker printed
    ret,            \* result flag of the last cap.read()
    frame,          \* the frame of the last successful cap.read()
    scene,          \* what the detector sees in that frame: <<>> or <<lm>>
    out_img,        \* the frame process_frame returned
    displayed,      \* the image last given to cv2.imshow
    qPending,       \* the user has pressed 'q' and waitKey has not seen it yet
    winVisible,     \* the user has not closed the window
    reads,          \* number of cap.read() calls so far
    fails,          \* number of consecutive failed reads
    releases,       \* number of cap.release() calls
    destroys,       \* number of cv2.destroyAllWindows() calls
    det,            \* process_frame: det.pose_landmarks
    is_facing_left, \* process_frame: orientation flag
    anchors,        \* process_frame: <<head, neck, chest, hip>>
    theta,          \* <<theta1, theta2, theta3, theta4>>
    label,          \* posture label
    color,          \* its colour
    p1, p2,         \* arguments of a call of angle_between
    ang,            \* its result
    wrapped         \* whether its "ang > 180" branch was taken

loopVars  == <<pc, detector, cap, window, log, ret, frame, scene, out_img,
               displayed, qPending, winVisible, reads, fails, releases, destroys>>
frameVars == <<det, is_facing_left, anchors, theta, label, color>>
angleVars == <<p1, p2, ang, wrapped>>
vars      == <<loopVars, frameVars, angleVars>>

(***************************************************************************)
(* Bounds of the model.                                                    *)
(***************************************************************************)
FrameW   == 1      \* frame width in pixels; landmark x lies on 0..FrameW
FrameH   == 2      \* frame height in pixels; landmark y lies on 0..FrameH
MaxReads == 3      \* cap.read() calls explored
NumImages == 2     \* distinct camera images
Eps      == 100    \* 0.01 degree, the step used around each threshold
MaxCoord == 4      \* angle_between is called on points of (0..MaxCoord) x (0..MaxCoord)

(***************************************************************************)
(* Thresholds, in 1/10000 degree.                                          *)
(***************************************************************************)
TH1 == 1050000
TH2 == 1100000
TH3 == 700000
TH4 == 800000

Deg180 == 180 * 10000
Deg360 == 360 * 10000

Abs(n) == IF n < 0 THEN -n ELSE n

(***************************************************************************)
(* math.degrees(math.atan2(dy, dx)).                                       *)
(* atan2 is computed by CORDIC vectoring on the right half plane: the      *)
(* vector is rotated onto the positive x axis by the angles atan(2^-i),    *)
(* and the rotation applied is the angle.  AtanTable[i+1] = atan(2^-i) in  *)
(* 1/10000 degree.  The axes and the other half plane follow atan2's       *)
(* definition exactly (0, +-90, 180, and +-180 -+ atan2(|dy|, |dx|)).      *)
(***************************************************************************)
AtanTable == << 450000, 265651, 140362, 71250, 35763, 17899, 8952, 4476,
                2238, 1119, 560, 280, 140, 70, 35, 17 >>

Pow2(n) == 2 ^ n

\* one CORDIC step on s = <<x, y, z>>: rotate by -+atan(2^-(i-1))
CordicStep(s, i) ==
    LET x == s[1]
        y == s[2]
        z == s[3]
        k == Pow2(i - 1)
    IN  IF y = 0 THEN s
        ELSE IF y > 0
             THEN << x + (y \div k), y - (x \div k), z + AtanTable[i] >>
             ELSE << x - (y \div k), y + (x \div k), z - AtanTable[i] >>

\* atan2 for dx > 0, dy >= 0, rounded to 1/1000 degree
AtanQ1(dy, dx) ==
    LET st[i \in 0..Len(AtanTable)] ==
            IF i = 0 THEN << dx * 4096, dy * 4096, 0 >>
            ELSE CordicStep(st[i - 1], i)
    IN  ((st[Len(AtanTable)][3] + 5) \div 10) * 10

\* the angle of (dx, dy) from the angle a of (|dx|, |dy|)
Quadrant(a, dy, dx) ==
    IF dy > 0 THEN (IF dx > 0 THEN a ELSE Deg180 - a)
    ELSE (IF dx > 0 THEN -a ELSE a - Deg180)

Atan2Deg(dy, dx) ==
    IF dx = 0 /\ dy = 0 THEN 0
    ELSE IF dx = 0 THEN (IF dy > 0 THEN Deg180 \div 2 ELSE -(Deg180 \div 2))
    ELSE IF dy = 0 THEN (IF dx > 0 THEN 0 ELSE Deg180)
    ELSE Quadrant(AtanQ1(Abs(dy), Abs(dx)), dy, dx)

(***************************************************************************)
(* midpoint(a, b), lines 28-29.                                            *)
(***************************************************************************)
midpoint(a, b) == << (a[1] + b[1]) \div 2, (a[2] + b[2]) \div 2 >>

(***************************************************************************)
(* angle_between(p1, p2), lines 31-41.  angle_raw is the value of ang      *)
(* after line 36, angle_between the value returned.                        *)
(***************************************************************************)
\* mutant: the abs() of line 36 left out
angle_raw_signed(a, b) ==
    LET dx == a[1] - b[1]
        dy == a[2] - b[2]
    IN  Atan2Deg(dy, dx)

angle_raw(a, b) ==
    LET dx == a[1] - b[1]
        dy == a[2] - b[2]
    IN  Abs(Atan2Deg(dy, dx))

\* lines 38-39
angle_wrap(r) == IF r > Deg180 THEN Deg360 - r ELSE r

angle_between(a, b) == angle_wrap(angle_raw(a, b))

(***************************************************************************)
(* classify_posture(theta1, theta2, theta3, theta4), lines 43-52.          *)
(* L_cond and T_cond are the conditions of its two if statements.          *)
(***************************************************************************)
\* mutant: the L-Posture comparisons made inclusive
L_cond_inclusive(t2, t3) == t2 >= TH1 /\ t3 >= TH2

L_cond(t2, t3) == t2 > TH1 /\ t3 > TH2

T_cond(t1, t4) == t1 <= TH3 /\ t4 <= TH4

\* mutant: the T-Posture rule tested before the L-Posture rule
classify_posture_t_first(t1, t2, t3, t4) ==
    IF T_cond(t1, t4) THEN << "T-Posture", <<0, 0, 255>> >>
    ELSE IF L_cond(t2, t3) THEN << "L-Posture", <<0, 165, 255>> >>
    ELSE << "Good Posture", <<0, 255, 0>> >>

classify_posture(t1, t2, t3, t4) ==
    IF L_cond(t2, t3) THEN << "L-Posture", <<0, 165, 255>> >>
    ELSE IF T_cond(t1, t4) THEN << "T-Posture", <<0, 0, 255>> >>
    ELSE << "Good Posture", <<0, 255, 0>> >>

(***************************************************************************)
(* process_frame, lines 54-127.                                            *)
(* A landmark set lm maps the landmark indices the function reads to the   *)
(* normalised position <<gx, gy>>, standing for p.x = gx / FrameW and      *)
(* p.y = gy / FrameH.  The other 28 landmarks are scaled and mirrored by   *)
(* the code but never read again, and are left out.                        *)
(***************************************************************************)
LmIdx == {0, 11, 12, 23, 24}

\* line 68: [p.x * w, p.y * h], in quarter pixels
lms_px_of(lm, w, h) ==
    [i \in DOMAIN lm |-> << (4 * lm[i][1] * w) \div FrameW,
                            (4 * lm[i][2] * h) \div FrameH >>]

\* lines 71-78
facing_left_of(px) ==
    LET nose_x   == px[0][1]
        l_sh_x   == px[11][1]
        r_sh_x   == px[12][1]
        avg_sh_x == (l_sh_x + r_sh_x) \div 2
    IN  nose_x < avg_sh_x

\* mutant: the mirroring of lines 81-83 left out
math_lms_unmirrored(px, left, w) == px

\* lines 80-83
math_lms_of(px, left, w) ==
    IF left THEN [i \in DOMAIN px |-> << 4 * w - px[i][1], px[i][2] >>]
    ELSE px

\* mutant: landmark 23 taken twice and landmark 24 never
chest_of_left_hip_twice(m) ==
    << (m[11][1] + m[12][1] + m[23][1] + m[23][1]) \div 4,
       (m[11][2] + m[12][2] + m[23][2] + m[23][2]) \div 4 >>

\* lines 85-91: <<head, neck, chest, hip>>
chest_of(m) ==
    << (m[11][1] + m[12][1] + m[23][1] + m[24][1]) \div 4,
       (m[11][2] + m[12][2] + m[23][2] + m[24][2]) \div 4 >>

anchors_of(m) ==
    << m[0], midpoint(m[11], m[12]), chest_of(m), midpoint(m[23], m[24]) >>

\* line 98
theta4_of(t1, t2, t3) == (6 * t1 + 2 * t2 + 2 * t3) \div 10

with_theta4(t1, t2, t3) == << t1, t2, t3, theta4_of(t1, t2, t3) >>

\* lines 94-98
thetas_of(a) ==
    with_theta4(angle_between(a[1], a[2]),
                angle_between(a[2], a[3]),
                angle_between(a[3], a[4]))

\* lines 102-106: int() of a non-negative quarter-pixel value
draw_pt(pt, left, w) ==
    << IF left THEN (4 * w - pt[1]) \div 4 ELSE pt[1] \div 4, pt[2] \div 4 >>

\* lines 108-125: the drawing calls, in order
overlay_of(a, t, lab, col, left, w) ==
    << << "line", draw_pt(a[1], left, w), draw_pt(a[2], left, w), <<255, 255, 0>>, 2 >>,
       << "line", draw_pt(a[2], left, w), draw_pt(a[3], left, w), <<255, 255, 0>>, 2 >>,
       << "line", draw_pt(a[3], left, w), draw_pt(a[4], left, w), <<255, 255, 0>>, 2 >> >>
    \o [k \in 1..4 |-> << "circle", draw_pt(a[k], left, w), 6, <<0, 255, 255>>, -1 >>]
    \o << << "text", << "Posture: ", lab >>, <<30, 50>>, col, 2 >>,
          << "text", << "T1:", t[1] \div 10000, " T2:", t[2] \div 10000,
                        " T3:", t[3] \div 10000, " T4:", t[4] \div 10000 >>,
             <<30, 90>>, <<200, 200, 200>>, 1 >>,
          << "text", << "Facing: ", IF left THEN "LEFT" ELSE "RIGHT" >>,
             <<30, 120>>, <<0, 255, 255>>, 1 >> >>

\* everything process_frame computes from a detected landmark set, one
\* statement after the other: lines 100-125, 94-98, 80-91, 71-78, 68
locals_classified(a, t, c, left, w) ==
    [ is_facing_left |-> left, anchors |-> a, theta |-> t,
      label |-> c[1], color |-> c[2],
      overlay |-> overlay_of(a, t, c[1], c[2], left, w) ]

locals_angles(a, t, left, w) ==
    locals_classified(a, t, classify_posture(t[1], t[2], t[3], t[4]), left, w)

locals_anchors(a, left, w) == locals_angles(a, thetas_of(a), left, w)

locals_oriented(px, left, w) ==
    locals_anchors(anchors_of(math_lms_of(px, left, w)), left, w)

locals_px(px, w) == locals_oriented(px, facing_left_of(px), w)

locals_of(lm, w, h) == locals_px(lms_px_of(lm, w, h), w)

(***************************************************************************)
(* Frames.  A frame is its camera image (an opaque pixel content), its     *)
(* shape, and the drawing calls applied to it since it left the camera.    *)
(***************************************************************************)
NoImage == [ pixels |-> 0, w |-> 0, h |-> 0, overlay |-> <<>> ]

CameraFrames ==
    { [ pixels |-> i, w |-> FrameW, h |-> FrameH, overlay |-> <<>> ] : i \in 1..NumImages }

\* line 61: frame_bgr.copy()
frame_copy(f) == [ pixels |-> f.pixels, w |-> f.w, h |-> f.h, overlay |-> f.overlay ]

drawn(f, ops) == [ f EXCEPT !.overlay = f.overlay \o ops ]

Grid == (0..FrameW) \X (0..FrameH)

AllLandmarks == [LmIdx -> Grid]

Lm(nose, lsh, rsh, lhip, rhip) ==
    [i \in LmIdx |-> CASE i = 0 -> nose [] i = 11 -> lsh [] i = 12 -> rsh
                       [] i = 23 -> lhip [] OTHER -> rhip]

\* the landmark sets the camera loop is explored with: upright, slouched,
\* forward head, and one facing left
LoopLandmarks ==
    { Lm(<<1, 0>>, <<1, 1>>, <<1, 1>>, <<1, 2>>, <<1, 2>>),
      Lm(<<0, 0>>, <<0, 1>>, <<0, 1>>, <<1, 2>>, <<1, 2>>),
      Lm(<<1, 0>>, <<0, 1>>, <<0, 1>>, <<0, 2>>, <<0, 2>>),
      Lm(<<0, 0>>, <<1, 1>>, <<1, 1>>, <<1, 2>>, <<1, 2>>) }

(***************************************************************************)
(* State after construction: main() has not run yet.                       *)
(***************************************************************************)
FrameUnset ==
    /\ det = <<>>
    /\ is_facing_left = FALSE
    /\ anchors = <<>>
    /\ theta = <<>>
    /\ label = ""
    /\ color = <<>>

AngleUnset ==
    /\ p1 = <<0, 0>>
    /\ p2 = <<0, 0>>
    /\ ang = 0
    /\ wrapped = FALSE

Init ==
    /\ pc = "start"
    /\ detector = "unset"
    /\ cap = "unopened"
    /\ window = "none"
    /\ log = <<>>
    /\ ret = FALSE
    /\ frame = NoImage
    /\ scene = <<>>
    /\ out_img = NoImage
    /\ displayed = NoImage
    /\ qPending = FALSE
    /\ winVisible = FALSE
    /\ reads = 0
    /\ fails = 0
    /\ releases = 0
    /\ destroys = 0
    /\ FrameUnset
    /\ AngleUnset

(***************************************************************************)
(* main, lines 129-158.                                                    *)
(***************************************************************************)
\* mutant: main goes on to the camera without a detector
InitLandmarkerFailsGoesOn ==
    /\ pc = "start"
    /\ log' = Append(log, "Error")
    /\ detector' = "None"
    /\ pc' = "open_cam"
    /\ UNCHANGED <<cap, window, ret, frame, scene, out_img, displayed,
                   qPending, winVisible, reads, fails, releases, destroys>>
    /\ UNCHANGED <<frameVars, angleVars>>

\* mutant: the loop gives up at the second failed read in a row
ReadFailsGivesUp ==
    /\ pc = "read"
    /\ reads < MaxReads
    /\ ret' = FALSE
    /\ reads' = reads + 1
    /\ fails' = fails + 1
    /\ pc' = IF fails >= 1 THEN "cleanup" ELSE "read"
    /\ UNCHANGED <<detector, cap, window, log, frame, scene, out_img, displayed,
                   qPending, winVisible, releases, destroys>>
    /\ UNCHANGED <<frameVars, angleVars>>

\* mutant: a frame without landmarks gets a label drawn on it
ProcessNoLandmarksAnnotated ==
    /\ pc \in {"process", "frame"}
    /\ scene = <<>>
    /\ det' = scene
    /\ out_img' = drawn(frame_copy(frame),
                        << << "text", << "Posture: ", "" >>, <<30, 50>>, <<0, 255, 0>>, 2 >> >>)
    /\ is_facing_left' = FALSE
    /\ anchors' = <<>>
    /\ theta' = <<>>
    /\ label' = ""
    /\ color' = <<>>
    /\ pc' = IF pc = "process" THEN "show" ELSE "framed"
    /\ UNCHANGED <<detector, cap, window, log, ret, frame, scene, displayed,
                   qPending, winVisible, reads, fails, releases, destroys>>
    /\ UNCHANGED angleVars

\* lines 14-23 and 130-131: the model loads
InitLandmarkerOk ==
    /\ pc = "start"
    /\ detector' = "loaded"
    /\ pc' = "open_cam"
    /\ UNCHANGED <<cap, window, log, ret, frame, scene, out_img, displayed,
                   qPending, winVisible, reads, fails, releases, destroys>>
    /\ UNCHANGED <<frameVars, angleVars>>

\* lines 24-26 and 130-132: the model fails to load; main returns
InitLandmarkerFails ==
    /\ pc = "start"
    /\ log' = Append(log, "Error")
    /\ detector' = "None"
    /\ pc' = "done"
    /\ UNCHANGED <<cap, window, ret, frame, scene, out_img, displayed,
                   qPending, winVisible, reads, fails, releases, destroys>>
    /\ UNCHANGED <<frameVars, angleVars>>

\* lines 134-136
OpenCamera ==
    /\ pc = "open_cam"
    /\ \E opened \in BOOLEAN :
         /\ cap' = IF opened THEN "open" ELSE "failed"
         /\ pc' = IF opened THEN "read" ELSE "done"
    /\ UNCHANGED <<detector, window, log, ret, frame, scene, out_img, displayed,
                   qPending, winVisible, reads, fails, releases, destroys>>
    /\ UNCHANGED <<frameVars, angleVars>>

\* line 141 with ret true: a frame arrives, showing a scene
ReadOk ==
    /\ pc = "read"
    /\ reads < MaxReads
    /\ \E f \in CameraFrames, s \in {<<>>} \cup { <<lm>> : lm \in LoopLandmarks } :
         /\ frame' = f
         /\ scene' = s
    /\ ret' = TRUE
    /\ reads' = reads + 1
    /\ fails' = 0
    /\ pc' = "process"
    /\ UNCHANGED <<detector, cap, window, log, out_img, displayed,
                   qPending, winVisible, releases, destroys>>
    /\ UNCHANGED <<frameVars, angleVars>>

\* lines 141-143 with ret false: continue
ReadFails ==
    /\ pc = "read"
    /\ reads < MaxReads
    /\ ret' = FALSE
    /\ reads' = reads + 1
    /\ fails' = fails + 1
    /\ pc' = "read"
    /\ UNCHANGED <<detector, cap, window, log, frame, scene, out_img, displayed,
                   qPending, winVisible, releases, destroys>>
    /\ UNCHANGED <<frameVars, angleVars>>

\* lines 147 and 55-64: the detector finds no pose
ProcessNoLandmarks ==
    /\ pc \in {"process", "frame"}
    /\ scene = <<>>
    /\ det' = scene
    /\ out_img' = frame_copy(frame)
    /\ is_facing_left' = FALSE
    /\ anchors' = <<>>
    /\ theta' = <<>>
    /\ label' = ""
    /\ color' = <<>>
    /\ pc' = IF pc = "process" THEN "show" ELSE "framed"
    /\ UNCHANGED <<detector, cap, window, log, ret, frame, scene, displayed,
                   qPending, winVisible, reads, fails, releases, destroys>>
    /\ UNCHANGED angleVars

\* lines 147 and 55-127: the detector finds a pose
ProcessLandmarks ==
    /\ pc \in {"process", "frame"}
    /\ scene # <<>>
    /\ det' = scene
    /\ \E r \in { locals_of(scene[1], frame.w, frame.h) } :
           /\ is_facing_left' = r.is_facing_left
           /\ anchors' = r.anchors
           /\ theta' = r.theta
           /\ label' = r.label
           /\ color' = r.color
           /\ out_img' = drawn(frame_copy(frame), r.overlay)
    /\ pc' = IF pc = "process" THEN "show" ELSE "framed"
    /\ UNCHANGED <<detector, cap, window, log, ret, frame, scene, displayed,
                   qPending, winVisible, reads, fails, releases, destroys>>
    /\ UNCHANGED angleVars

\* line 59: detect_for_video raises (for one, when the millisecond timestamp
\* of line 145 does not increase); nothing in main catches it
ProcessRaises ==
    /\ pc = "process"
    /\ pc' = "raised"
    /\ UNCHANGED <<detector, cap, window, log, ret, frame, scene, out_img, displayed,
                   qPending, winVisible, reads, fails, releases, destroys>>
    /\ UNCHANGED <<frameVars, angleVars>>

\* line 149: imshow creates the window if there is none
Show ==
    /\ pc = "show"
    /\ displayed' = out_img
    /\ window' = "shown"
    /\ winVisible' = TRUE
    /\ pc' = "waitkey"
    /\ UNCHANGED <<detector, cap, log, ret, frame, scene, out_img,
                   qPending, reads, fails, releases, destroys>>
    /\ UNCHANGED <<frameVars, angleVars>>

\* lines 151-152
WaitKey ==
    /\ pc = "waitkey"
    /\ pc' = IF qPending THEN "cleanup" ELSE "checkwin"
    /\ qPending' = FALSE
    /\ UNCHANGED <<detector, cap, window, log, ret, frame, scene, out_img, displayed,
                   winVisible, reads, fails, releases, destroys>>
    /\ UNCHANGED <<frameVars, angleVars>>

\* lines 154-155
CheckWindow ==
    /\ pc = "checkwin"
    /\ pc' = IF winVisible THEN "read" ELSE "cleanup"
    /\ UNCHANGED <<detector, cap, window, log, ret, frame, scene, out_img, displayed,
                   qPending, winVisible, reads, fails, releases, destroys>>
    /\ UNCHANGED <<frameVars, angleVars>>

\* lines 157-158
Cleanup ==
    /\ pc = "cleanup"
    /\ cap' = "released"
    /\ releases' = releases + 1
    /\ window' = "destroyed"
    /\ winVisible' = FALSE
    /\ destroys' = destroys + 1
    /\ pc' = "done"
    /\ UNCHANGED <<detector, log, ret, frame, scene, out_img, displayed,
                   qPending, reads, fails>>
    /\ UNCHANGED <<frameVars, angleVars>>

\* the user presses 'q' in the window; the key waits for the next waitKey
UserPressesQ ==
    /\ window = "shown"
    /\ pc \in {"read", "process", "show", "waitkey", "checkwin"}
    /\ ~qPending
    /\ qPending' = TRUE
    /\ UNCHANGED <<pc, detector, cap, window, log, ret, frame, scene, out_img,
                   displayed, winVisible, reads, fails, releases, destroys>>
    /\ UNCHANGED <<frameVars, angleVars>>

\* the user closes the window
UserClosesWindow ==
    /\ window = "shown"
    /\ pc \in {"read", "process", "show", "waitkey", "checkwin"}
    /\ winVisible
    /\ winVisible' = FALSE
    /\ UNCHANGED <<pc, detector, cap, window, log, ret, frame, scene, out_img,
                   displayed, qPending, reads, fails, releases, destroys>>
    /\ UNCHANGED <<frameVars, angleVars>>

Next ==
    \/ InitLandmarkerOk
    \/ InitLandmarkerFails
    \/ OpenCamera
    \/ ReadOk
    \/ ReadFails
    \/ ProcessNoLandmarks
    \/ ProcessLandmarks
    \/ ProcessRaises
    \/ Show
    \/ WaitKey
    \/ CheckWindow
    \/ Cleanup
    \/ UserPressesQ
    \/ UserClosesWindow

Spec == Init /\ [][Next]_vars

(***************************************************************************)
(* process_frame on its own: one call, on every landmark set of the grid   *)
(* and on the empty detection.                                             *)
(***************************************************************************)
InitFrame ==
    /\ pc = "frame"
    /\ detector = "loaded"
    /\ cap = "open"
    /\ window = "none"
    /\ log = <<>>
    /\ ret = TRUE
    /\ frame \in CameraFrames
    /\ frame.pixels = 1
    /\ \/ scene = <<>>
       \/ \E lm \in AllLandmarks : scene = <<lm>>
    /\ out_img = NoImage
    /\ displayed = NoImage
    /\ qPending = FALSE
    /\ winVisible = FALSE
    /\ reads = 1
    /\ fails = 0
    /\ releases = 0
    /\ destroys = 0
    /\ FrameUnset
    /\ AngleUnset

NextFrame ==
    \/ ProcessNoLandmarks
    \/ ProcessLandmarks

SpecFrame == InitFrame /\ [][NextFrame]_vars

(***************************************************************************)
(* classify_posture on its own: one call, on angles around each threshold. *)
(***************************************************************************)
ThetaSamples ==
    {0, Deg180} \cup { t + d : t \in {TH1, TH2, TH3, TH4}, d \in {-Eps, 0, Eps} }

LoopIdle ==
    /\ detector = "unset"
    /\ cap = "unopened"
    /\ window = "none"
    /\ log = <<>>
    /\ ret = FALSE
    /\ frame = NoImage
    /\ scene = <<>>
    /\ out_img = NoImage
    /\ displayed = NoImage
    /\ qPending = FALSE
    /\ winVisible = FALSE
    /\ reads = 0
    /\ fails = 0
    /\ releases = 0
    /\ destroys = 0

InitClassify ==
    /\ pc = "classify"
    /\ LoopIdle
    /\ det = <<>>
    /\ is_facing_left = FALSE
    /\ anchors = <<>>
    /\ theta \in ThetaSamples \X ThetaSamples \X ThetaSamples \X ThetaSamples
    /\ label = ""
    /\ color = <<>>
    /\ AngleUnset

Classify ==
    /\ pc = "classify"
    /\ \E c \in { classify_posture(theta[1], theta[2], theta[3], theta[4]) } :
           /\ label' = c[1]
           /\ color' = c[2]
    /\ pc' = "classified"
    /\ UNCHANGED <<detector, cap, window, log, ret, frame, scene, out_img, displayed,
                   qPending, winVisible, reads, fails, releases, destroys>>
    /\ UNCHANGED <<det, is_facing_left, anchors, theta>>
    /\ UNCHANGED angleVars

NextClassify == Classify

SpecClassify == InitClassify /\ [][NextClassify]_vars

(***************************************************************************)
(* angle_between on its own: one call, on every pair of grid points.       *)
(***************************************************************************)
Points == (0..MaxCoord) \X (0..MaxCoord)

InitAngle ==
    /\ pc = "angle"
    /\ LoopIdle
    /\ FrameUnset
    /\ p1 \in Points
    /\ p2 \in Points
    /\ ang = 0
    /\ wrapped = FALSE

AngleBetween ==
    /\ pc = "angle"
    /\ wrapped' = (angle_raw(p1, p2) > Deg180)
    /\ ang' = angle_between(p1, p2)
    /\ pc' = "angled"
    /\ UNCHANGED <<detector, cap, window, log, ret, frame, scene, out_img, displayed,
                   qPending, winVisible, reads, fails, releases, destroys>>
    /\ UNCHANGED <<frameVars, p1, p2>>

NextAngle == AngleBetween

SpecAngle == InitAngle /\ [][NextAngle]_vars

(***************************************************************************)
(*                          Properties                                     *)
(***************************************************************************)

\* What the decision rule of classify_posture prescribes for the angles t,
\* written out with the documented thresholds in degrees.
RuleL(t) == t[2] > 105 * 10000 /\ t[3] > 110 * 10000

RuleT(t) == t[1] <= 70 * 10000 /\ t[4] <= 80 * 10000

ColourOf(l) ==
    CASE l = "L-Posture" -> <<0, 165, 255>>
      [] l = "T-Posture" -> <<0, 0, 255>>
      [] l = "Good Posture" -> <<0, 255, 0>>

\* C1: classify_posture is total and evaluates its rules in order, first
\* match wins: L-Posture if theta2 > 105 and theta3 > 110, otherwise
\* T-Posture if theta1 <= 70 and theta4 <= 80, otherwise Good Posture; when
\* both conditions hold the result is L-Posture; each label always comes
\* with the same colour.
C1_FirstMatchWins ==
    pc = "classified" =>
        /\ label \in {"L-Posture", "T-Posture", "Good Posture"}
        /\ color = ColourOf(label)
        /\ label = IF RuleL(theta) THEN "L-Posture"
                   ELSE IF RuleT(theta) THEN "T-Posture"
                   ELSE "Good Posture"
        /\ (RuleL(theta) /\ RuleT(theta) => label = "L-Posture")

\* a call on which both conditions hold, answered L-Posture
C1_BothHoldIsL ==
    /\ pc = "classified"
    /\ RuleL(theta)
    /\ RuleT(theta)
    /\ label = "L-Posture"
    /\ color = <<0, 165, 255>>

\* C2: the L-Posture comparisons are strict and the T-Posture comparisons
\* inclusive: with theta2 = 105 or theta3 = 110 exactly L-Posture is not
\* returned, and it is returned only when both are strictly above; with
\* theta1 = 70 and theta4 = 80 exactly and the L condition false the result
\* is T-Posture; theta1 above 70 with the L condition false gives Good
\* Posture.
C2_StrictAndInclusive ==
    pc = "classified" =>
        /\ (theta[2] = 105 * 10000 \/ theta[3] = 110 * 10000 => label # "L-Posture")
        /\ (label = "L-Posture" => theta[2] > 105 * 10000 /\ theta[3] > 110 * 10000)
        /\ (theta[1] = 70 * 10000 /\ theta[4] = 80 * 10000 /\ ~RuleL(theta)
               => label = "T-Posture")
        /\ (theta[1] > 70 * 10000 /\ ~RuleL(theta) => label = "Good Posture")

\* the call with all four angles exactly on their thresholds, answered T-Posture
C2_AllOnThreshold ==
    /\ pc = "classified"
    /\ theta = << 70 * 10000, 105 * 10000, 110 * 10000, 80 * 10000 >>
    /\ label = "T-Posture"

(***************************************************************************)
(* process_frame on a landmark set and on its horizontal mirror.           *)
(***************************************************************************)
\* every x replaced by w - x (1 - p.x in normalised coordinates)
MirrorLm(lm) == [i \in DOMAIN lm |-> << FrameW - lm[i][1], lm[i][2] >>]

\* process_frame gives the mirror of the processed landmark set the same
\* anchors, angles and label, and the opposite facing flag
MirrorAgrees ==
    \E r \in { locals_of(MirrorLm(det[1]), frame.w, frame.h) } :
        /\ r.anchors = anchors
        /\ r.theta = theta
        /\ r.label = label
        /\ r.is_facing_left = ~is_facing_left

\* the nose is exactly above or below the middle of the shoulders
NoseCentred(lm) == 2 * lm[0][1] = lm[11][1] + lm[12][1]

\* C3 (as claimed): for every landmark set, also with nose x equal to the
\* average shoulder x, the set and its horizontal mirror get the same
\* canonical anchors, the same four angles and the same label, and opposite
\* facing flags.
C3_MirrorInvariantAll ==
    (pc = "framed" /\ det # <<>>) => MirrorAgrees

\* C3 (amended): the same, for the landmark sets whose nose x differs from
\* the average shoulder x.
C3_MirrorInvariantOffCentre ==
    (pc = "framed" /\ det # <<>> /\ ~NoseCentred(det[1])) => MirrorAgrees

\* a left-facing landmark set, mirrored for the angle computation, whose
\* right-facing mirror image gets the same slouch verdict
C3_LeftFacingSlouch ==
    /\ pc = "framed"
    /\ det # <<>>
    /\ ~NoseCentred(det[1])
    /\ is_facing_left
    /\ label = "L-Posture"
    /\ MirrorAgrees

\* C10: the chest anchor is the midpoint of the neck and hip anchors, so
\* neck - chest = chest - hip and theta2 = theta3 on every frame; L-Posture
\* is returned exactly when that angle exceeds 110, whatever the 105
\* threshold says; and theta4 = 0.6 * theta1 + 0.4 * theta2.
C10_ChestIsMidpoint ==
    (pc = "framed" /\ det # <<>>) =>
        /\ 2 * anchors[3][1] = anchors[2][1] + anchors[4][1]
        /\ 2 * anchors[3][2] = anchors[2][2] + anchors[4][2]
        /\ anchors[2][1] - anchors[3][1] = anchors[3][1] - anchors[4][1]
        /\ anchors[2][2] - anchors[3][2] = anchors[3][2] - anchors[4][2]
        /\ theta[2] = theta[3]
        /\ (label = "L-Posture" <=> theta[2] > 110 * 10000)
        /\ 10 * theta[4] = 6 * theta[1] + 4 * theta[2]

\* a frame whose torso angle lies between the two thresholds: above 105,
\* not above 110, and not an L-Posture
C10_Between105And110 ==
    /\ pc = "framed"
    /\ det # <<>>
    /\ theta[2] > 105 * 10000
    /\ theta[2] <= 110 * 10000
    /\ theta[3] = theta[2]
    /\ label # "L-Posture"

(***************************************************************************)
(* angle_between.                                                          *)
(***************************************************************************)
\* C9 (as claimed): angle_between(p1, p2) = angle_between(p2, p1) for all
\* pairs of points.
C9_Symmetric ==
    pc = "angled" => ang = angle_between(p2, p1)

\* C9 (amended): angle_between(p1, p2) lies in [0, 180] and the "ang > 180"
\* correction never fires; the two orders give the same angle when the
\* points have the same x, and supplementary angles (sum 180, hence
\* different values) when they do not.
C9_Supplementary ==
    pc = "angled" =>
        /\ 0 <= ang
        /\ ang <= 180 * 10000
        /\ ~wrapped
        /\ (p1[1] = p2[1] => ang = angle_between(p2, p1))
        /\ (p1[1] # p2[1] => /\ ang + angle_between(p2, p1) = 180 * 10000
                             /\ ang # angle_between(p2, p1))

\* the call angle_between((1,0), (0,0)) = 0, whose swap gives 180
C9_UnitVector ==
    /\ pc = "angled"
    /\ p1 = <<1, 0>>
    /\ p2 = <<0, 0>>
    /\ ang = 0
    /\ angle_between(p2, p1) = 180 * 10000

(***************************************************************************)
(* The camera loop.                                                        *)
(***************************************************************************)
\* what a step of an iteration without landmarks does
C4_Step ==
    /\ (pc = "process" /\ scene = <<>> /\ pc' = "show") =>
           /\ out_img' = frame
           /\ out_img'.overlay = <<>>
           /\ frame' = frame
           /\ det' = <<>>
           /\ label' = ""
           /\ color' = <<>>
           /\ theta' = <<>>
    /\ (pc = "show" /\ det = <<>> /\ pc' # pc) =>
           /\ displayed' = out_img
           /\ displayed' = frame
           /\ pc' = "waitkey"
    /\ (pc = "waitkey" /\ det = <<>> /\ pc' # pc) =>
           pc' = IF qPending THEN "cleanup" ELSE "checkwin"
    /\ (pc = "checkwin" /\ det = <<>> /\ pc' # pc) =>
           pc' = IF winVisible THEN "read" ELSE "cleanup"

\* C4: when the detector returns no landmarks, process_frame returns a
\* frame equal to its input, nothing drawn and nothing classified, and
\* leaves the input as it was; main then displays that frame and carries
\* on as in any other iteration: on to the next read unless the user quits.
C4_NoDetectionPassThrough == [][C4_Step]_vars

\* the second read of a run whose first frame had no landmarks and was
\* displayed as it came from the camera
C4_NextReadAfterNoDetection ==
    /\ pc = "read"
    /\ reads = 1
    /\ det = <<>>
    /\ out_img = frame
    /\ displayed = frame
    /\ frame \in CameraFrames

\* C5: once the capture device has been acquired, every way out of the
\* loop releases it and destroys the window, each exactly once, before the
\* program ends; the program never ends with the capture device held.
C5_CleanupOnEveryExit ==
    (pc \in {"done", "raised"} /\ cap \in {"open", "released"}) =>
        /\ cap = "released"
        /\ releases = 1
        /\ destroys = 1
        /\ window # "shown"

\* C6: the quit key is checked in every iteration of the loop, whatever the
\* outcome of its camera read: an iteration that starts with 'q' pending
\* does not end by going back to the camera read.
C6_QuitCheckedEveryIteration ==
    [][(pc = "read" /\ qPending /\ reads' # reads) => pc' # "read"]_vars

\* what a failed camera read does
C7_Step ==
    (pc = "read" /\ reads' # reads /\ ~ret') =>
        /\ pc' = "read"
        /\ fails' = fails + 1
        /\ cap' = "open"
        /\ releases' = 0
        /\ UNCHANGED <<frame, scene, out_img, displayed, window, destroys>>
        /\ UNCHANGED frameVars

\* C7: an iteration whose camera read fails detects, classifies and
\* displays nothing, does not leave the loop, and is followed by another
\* camera read, however many reads have failed in a row.
C7_FailedReadRetries == [][C7_Step]_vars

\* two failed reads in a row, and the loop is again at the camera read
C7_TwoFailuresInARow ==
    /\ pc = "read"
    /\ fails >= 2
    /\ ~ret
    /\ cap = "open"

\* C8: when the model fails to load, the error is reported, there is no
\* detector, and main ends with the camera never opened; when the camera
\* fails to open, main ends too; in both cases no frame is read, processed
\* or displayed, no window is shown, and nothing more happens.
C8_InitFailureIsFatal ==
    /\ detector = "None" =>
           /\ pc = "done"
           /\ log = << "Error" >>
           /\ cap = "unopened"
    /\ cap = "failed" =>
           /\ pc = "done"
           /\ detector = "loaded"
           /\ log = <<>>
    /\ (detector = "None" \/ cap = "failed") =>
           /\ reads = 0
           /\ frame = NoImage
           /\ out_img = NoImage
           /\ displayed = NoImage
           /\ window = "none"
           /\ det = <<>>
           /\ label = ""
           /\ ~ENABLED Next

\* main has returned after a failed model load
C8_ModelLoadFailed ==
    /\ pc = "done"
    /\ detector = "None"
    /\ log = << "Error" >>

=============================================================================
